---- MODULE Spec2Model ----
(***************************************************************************)
(* Model of src/util/http.go: five helpers that build an HTTP request,     *)
(* hand it to a client, check the status code and decode a JSON body into  *)
(* a caller-owned destination.                                             *)
(*                                                                         *)
(* One call is in flight at a time.  The client (net/http) and the server  *)
(* are the environment: the send may fail or return a response, the body   *)
(* may arrive completely or break off after a prefix, and the caller may   *)
(* cancel the context while the call is in flight.                         *)
(***************************************************************************)
EXTENDS Integers, Sequences, FiniteSets, TLC

\* ------------------------------------------------------------------ bounds

\* Longest response body, in bytes.
MaxBodyLen == 3
\* Largest number of entries in a caller's header map.
MaxHeaders == 2

\* ------------------------------------------------------------- small helpers

SeqsUpTo(S, n) == UNION {[1..k -> S] : k \in 0..n}

Prefix(s, n) == SubSeq(s, 1, n)

\* All orders in which the elements of a finite set can be enumerated.
Orders(S) ==
  {o \in [1..Cardinality(S) -> S] : \A i, j \in 1..Cardinality(S) : i # j => o[i] # o[j]}

EmptyMap == [k \in {} |-> <<>>]

\* http.StatusOK
StatusOK == 200

\* ------------------------------------------------- encoding/json, as called
(***************************************************************************)
(* Response bodies are byte strings over "[", "]", "1" and " ".  The       *)
(* alphabet has no comma, so an array holds at most one element; it is     *)
(* enough to write empty, truncated, complete and over-long documents.     *)
(* A decoded value is [depth, n]: n wrapped in depth arrays, n = -1 for    *)
(* the empty array.                                                        *)
(***************************************************************************)
BodyChars == {"[", "]", "1", " "}

Bodies == SeqsUpTo(BodyChars, MaxBodyLen)

isSpace(c) == c = " "

\* scanner.reset
scanReset == [step |-> "beginValue", depth |-> 0, endTop |-> FALSE, err |-> FALSE]

\* scanner.error: record the error and make every later step fail.
scanErr(s) == [s EXCEPT !.step = "error", !.err = TRUE]

\* stateEndTop: the top-level value is complete; a non-space byte is noted as an
\* error for the NEXT step, and this step still answers scanEnd.
stateEndTop(s, c) ==
  IF isSpace(c) THEN [s |-> s, op |-> "end"] ELSE [s |-> scanErr(s), op |-> "end"]

\* scanner.popParseState
popParseState(s) ==
  IF s.depth - 1 = 0
  THEN [s EXCEPT !.depth = 0, !.step = "endTop", !.endTop = TRUE]
  ELSE [s EXCEPT !.depth = @ - 1, !.step = "endValue"]

\* stateEndValue: after a value, at top level or inside an array.
stateEndValue(s, c) ==
  IF s.depth = 0
  THEN stateEndTop([s EXCEPT !.step = "endTop", !.endTop = TRUE], c)
  ELSE IF isSpace(c) THEN [s |-> [s EXCEPT !.step = "endValue"], op |-> "skipSpace"]
  ELSE IF c = "]" THEN [s |-> popParseState(s), op |-> "endArray"]
  ELSE [s |-> scanErr(s), op |-> "error"]

\* stateBeginValue
stateBeginValue(s, c) ==
  IF isSpace(c) THEN [s |-> s, op |-> "skipSpace"]
  ELSE IF c = "[" THEN [s |-> [s EXCEPT !.step = "beginValueOrEmpty", !.depth = @ + 1],
                        op |-> "beginArray"]
  ELSE IF c = "1" THEN [s |-> [s EXCEPT !.step = "number"], op |-> "beginLiteral"]
  ELSE [s |-> scanErr(s), op |-> "error"]

\* stateBeginValueOrEmpty: just after "[".
stateBeginValueOrEmpty(s, c) ==
  IF isSpace(c) THEN [s |-> s, op |-> "skipSpace"]
  ELSE IF c = "]" THEN stateEndValue(s, c)
  ELSE stateBeginValue(s, c)

\* state1: inside a number.
stateNumber(s, c) ==
  IF c = "1" THEN [s |-> s, op |-> "continue"] ELSE stateEndValue(s, c)

\* scanner.step
scanStep(s, c) ==
  CASE s.step = "beginValue" -> stateBeginValue(s, c)
    [] s.step = "beginValueOrEmpty" -> stateBeginValueOrEmpty(s, c)
    [] s.step = "number" -> stateNumber(s, c)
    [] s.step = "endValue" -> stateEndValue(s, c)
    [] s.step = "endTop" -> stateEndTop(s, c)
    [] OTHER -> [s |-> s, op |-> "error"]

\* scanner.eof
scanEOF(s) ==
  IF s.err THEN "error"
  ELSE IF s.endTop THEN "end"
  ELSE IF scanStep(s, " ").s.endTop THEN "end"
  ELSE "error"

\* The scan loop of Decoder.readValue over the bytes read so far: it stops at the
\* first byte that completes the top-level value and looks no further.  r is the
\* scanner's answer to byte i.
RECURSIVE readLoop(_, _, _)
readNext(buf, i, r) ==
  IF r.op = "end" THEN [found |-> TRUE, bad |-> FALSE, n |-> i - 1, s |-> r.s]
  ELSE IF r.op = "endArray" /\ stateEndValue(r.s, " ").op = "end"
    THEN [found |-> TRUE, bad |-> FALSE, n |-> i, s |-> r.s]
  ELSE IF r.op = "error" THEN [found |-> FALSE, bad |-> TRUE, n |-> i, s |-> r.s]
  ELSE readLoop(buf, i + 1, r.s)

readLoop(buf, i, s) ==
  IF i > Len(buf) THEN [found |-> FALSE, bad |-> FALSE, n |-> Len(buf), s |-> s]
  ELSE readNext(buf, i, scanStep(s, buf[i]))

\* The end of Decoder.readValue, r being what the scan loop found: the read
\* error is looked at only after the buffered bytes are scanned.
readEnd(buf, eof, r) ==
  IF r.found THEN [ok |-> TRUE, n |-> r.n]
  ELSE IF r.bad THEN [ok |-> FALSE, n |-> 0]
  ELSE IF eof /\ scanStep(r.s, " ").op = "end" THEN [ok |-> TRUE, n |-> Len(buf)]
  ELSE [ok |-> FALSE, n |-> 0]

\* Decoder.readValue: buf is what the body delivered and eof tells whether the
\* stream then ended (io.EOF) or broke with another error.
readValue(buf, eof) == readEnd(buf, eof, readLoop(buf, 1, scanReset))

\* checkValid: every byte must scan, and the input must end a complete value.
RECURSIVE checkLoop(_, _, _)
checkNext(data, i, r) ==
  IF r.op = "error" THEN FALSE ELSE checkLoop(data, i + 1, r.s)

checkLoop(data, i, s) ==
  IF i > Len(data) THEN scanEOF(s) = "end"
  ELSE checkNext(data, i, scanStep(s, data[i]))

checkValid(data) == checkLoop(data, 1, scanReset)

\* strconv of a run of digits.
RECURSIVE atoi(_)
atoi(ds) == IF ds = <<>> THEN 0 ELSE 10 * atoi(Prefix(ds, Len(ds) - 1)) + 1

\* decodeState.value on a checked document: the arrays opened and the literal.
literalOf(data) == SelectSeq(data, LAMBDA c : c = "1")

valueOf(data) ==
  [depth |-> Len(SelectSeq(data, LAMBDA c : c = "[")),
   n |-> IF literalOf(data) = <<>> THEN -1 ELSE atoi(literalOf(data))]

\* Kinds of destination: a *int and a *interface{}.
DestKinds == {"int", "any"}

\* What the destination holds before the call.
Untouched == [depth |-> 0, n |-> 0]

\* decodeState.unmarshal: an array does not fit a *int (UnmarshalTypeError, the
\* destination is left as it was); a *interface{} takes any value.
unmarshalInto(data, dk, dest) ==
  IF dk = "int" /\ valueOf(data).depth > 0 THEN [failed |-> TRUE, dest |-> dest]
  ELSE [failed |-> FALSE, dest |-> valueOf(data)]

\* Decoder.Decode after readValue answered r.
decodeValue(buf, r, dk, dest) ==
  IF ~r.ok THEN [failed |-> TRUE, dest |-> dest]
  ELSE unmarshalInto(Prefix(buf, r.n), dk, dest)

\* DecoderDecode with the end of the stream taken for a failed read.
DecoderDecodeEOFIsError(buf, eof, dk, dest) ==
  decodeValue(buf, readValue(buf, FALSE), dk, dest)

\* json.NewDecoder(body).Decode(result)
DecoderDecode(buf, eof, dk, dest) == decodeValue(buf, readValue(buf, eof), dk, dest)

\* json.Unmarshal(body, result)
Unmarshal(data, dk, dest) ==
  IF ~checkValid(data) THEN [failed |-> TRUE, dest |-> dest]
  ELSE unmarshalInto(data, dk, dest)

\* json.Marshal of a value of the model; a value that cannot be encoded (a
\* channel, a function) fails.
DigitChars == <<"0", "1", "2", "3", "4", "5", "6", "7", "8", "9">>

RECURSIVE itoa(_)
itoa(n) ==
  IF n < 10 THEN <<DigitChars[n + 1]>> ELSE Append(itoa(n \div 10), DigitChars[(n % 10) + 1])

Repeat(c, k) == IF k = 0 THEN <<>> ELSE [i \in 1..k |-> c]

Marshal(b) ==
  IF ~b.encodable THEN [failed |-> TRUE, bytes |-> <<>>]
  ELSE [failed |-> FALSE,
        bytes |-> Repeat("[", b.v.depth) \o (IF b.v.n < 0 THEN <<>> ELSE itoa(b.v.n))
                  \o Repeat("]", b.v.depth)]

\* ------------------------------------------------------- net/url, as called

EndpointOK == "https://api.example.com/v1/x"

\* An endpoint url.Parse rejects (an invalid percent escape).
EndpointBad == "https://api.example.com/%zz"

Endpoints == {EndpointOK, EndpointBad}

\* url.Parse: whether the endpoint parses.
urlParse(endpoint) == endpoint # EndpointBad

\* Form fields.  FormKeyOrder lists the possible keys in sorted order.
FormKeyOrder == <<"a", "b">>

FormVals == {<<>>, <<"x">>, <<" ">>, <<"&">>, <<"x", "&">>}

\* A url.Values: nil, or a map from some keys to a value (one value per key).
NilForm == [isNil |-> TRUE, vals |-> EmptyMap]

Forms ==
  {NilForm} \cup
  {[isNil |-> FALSE, vals |-> m] :
     m \in UNION {[K -> FormVals] : K \in SUBSET {FormKeyOrder[i] : i \in DOMAIN FormKeyOrder}}}

\* url.QueryEscape of one byte.
escapeByte(c) ==
  CASE c = " " -> <<"+">>
    [] c = "&" -> <<"%", "2", "6">>
    [] OTHER -> <<c>>

\* url.QueryEscape
RECURSIVE QueryEscape(_)
QueryEscape(str) ==
  IF str = <<>> THEN <<>> ELSE escapeByte(Head(str)) \o QueryEscape(Tail(str))

\* url.Values.Encode: "key=value" pairs in sorted key order, joined by "&".
encodePair(buf, k, v) ==
  (IF buf = <<>> THEN <<>> ELSE buf \o <<"&">>) \o QueryEscape(<<k>>) \o <<"=">> \o QueryEscape(v)

RECURSIVE encodeFrom(_, _, _)
encodeFrom(vals, i, buf) ==
  IF i > Len(FormKeyOrder) THEN buf
  ELSE IF FormKeyOrder[i] \notin DOMAIN vals THEN encodeFrom(vals, i + 1, buf)
  ELSE encodeFrom(vals, i + 1, encodePair(buf, FormKeyOrder[i], vals[FormKeyOrder[i]]))

Encode(form) == encodeFrom(form.vals, 1, <<>>)

\* ---------------------------------------------------- http.Header, as called
(***************************************************************************)
(* A header name is a byte string.  Header.Set stores the value under the  *)
(* canonical form of the name (textproto.CanonicalMIMEHeaderKey).  A       *)
(* header value is the list of the strings concatenated to form it.        *)
(***************************************************************************)
LetterPairs ==
  {<<"c", "C">>, <<"o", "O">>, <<"n", "N">>, <<"t", "T">>, <<"e", "E">>,
   <<"y", "Y">>, <<"p", "P">>, <<"x", "X">>, <<"i", "I">>, <<"d", "D">>,
   <<"a", "A">>, <<"u", "U">>, <<"h", "H">>, <<"r", "R">>, <<"z", "Z">>}

isLower(c) == \E p \in LetterPairs : p[1] = c
isUpper(c) == \E p \in LetterPairs : p[2] = c
toUpper(c) == IF isLower(c) THEN (CHOOSE p \in LetterPairs : p[1] = c)[2] ELSE c
toLower(c) == IF isUpper(c) THEN (CHOOSE p \in LetterPairs : p[2] = c)[1] ELSE c

\* validHeaderFieldByte
validHeaderFieldByte(c) == isLower(c) \/ isUpper(c) \/ c = "-"

\* canonicalMIMEHeaderKey: upper-case the first letter and every letter after a
\* hyphen, lower-case the others.
canonByte(c, upper) ==
  IF upper /\ isLower(c) THEN toUpper(c)
  ELSE IF ~upper /\ isUpper(c) THEN toLower(c)
  ELSE c

RECURSIVE canonLoop(_, _, _)
canonLoop(key, i, upper) ==
  IF i > Len(key) THEN <<>>
  ELSE <<canonByte(key[i], upper)>> \o canonLoop(key, i + 1, key[i] = "-")

\* textproto.CanonicalMIMEHeaderKey: a name holding a byte that is not a token
\* byte is returned as it is.
CanonicalMIMEHeaderKey(key) ==
  IF \E i \in DOMAIN key : ~validHeaderFieldByte(key[i]) THEN key
  ELSE canonLoop(key, 1, TRUE)

ContentType == <<"C", "o", "n", "t", "e", "n", "t", "-", "T", "y", "p", "e">>

HeaderKeys ==
  {ContentType,
   <<"c", "o", "n", "t", "e", "n", "t", "-", "t", "y", "p", "e">>,
   <<"X", "-", "I", "d">>,
   <<"x", "-", "i", "d">>,
   <<"x", " ", "i", "d">>}

HeaderVals == {<<"v1">>, <<"v2">>}

\* A caller's map[string]string with at most MaxHeaders entries.
HeaderMaps ==
  UNION {[K -> HeaderVals] : K \in {S \in SUBSET HeaderKeys : Cardinality(S) <= MaxHeaders}}

\* HeaderSet storing the value under the name as the caller wrote it.
HeaderSetRaw(h, key, value) ==
  [x \in DOMAIN h \cup {key} |-> IF x = key THEN value ELSE h[x]]

\* Header.Set(key, value)
setCanonical(h, k, value) == [x \in DOMAIN h \cup {k} |-> IF x = k THEN value ELSE h[x]]

HeaderSet(h, key, value) == setCanonical(h, CanonicalMIMEHeaderKey(key), value)

\* for key, value := range headers { req.Header.Set(key, value) }, the map's
\* entries visited in the given order.
RECURSIVE applyHeaders(_, _, _, _)
applyHeaders(h, headers, order, i) ==
  IF i > Len(order) THEN h
  ELSE applyHeaders(HeaderSet(h, order[i], headers[order[i]]), headers, order, i + 1)

\* ------------------------------------------------------------ the requests

NoBody == [present |-> FALSE, bytes |-> <<>>]

SomeBody(bytes) == [present |-> TRUE, bytes |-> bytes]

NoReq == [method |-> "", url |-> "", query |-> <<>>, body |-> NoBody, header |-> EmptyMap]

Authorization ==
  <<"A", "u", "t", "h", "o", "r", "i", "z", "a", "t", "i", "o", "n">>

\* An error value: which wrapper produced it, and the status code and body text
\* its message carries (withBody: the message has a body part).
Err(kind) == [kind |-> kind, status |-> 0, text |-> <<>>, withBody |-> FALSE]

NoErr == Err("none")

\* http.NewRequestWithContext: fails on a nil context or a URL that does not
\* parse; the methods passed are all valid.
NewRequestWithContext(ctxNil, method, url, body) ==
  IF ctxNil \/ ~urlParse(url) THEN [failed |-> TRUE, req |-> NoReq]
  ELSE [failed |-> FALSE,
        req |-> [method |-> method, url |-> url, query |-> <<>>, body |-> body,
                 header |-> EmptyMap]]

\* newRequest, once the endpoint has parsed: r is what NewRequestWithContext
\* answered.
newRequestHeader(form, token) ==
  IF form.isNil
  THEN (IF token # "" THEN HeaderSet(EmptyMap, Authorization, <<"Bearer ", token>>) ELSE EmptyMap)
  ELSE (IF token # ""
        THEN HeaderSet(HeaderSet(EmptyMap, ContentType, <<"application/x-www-form-urlencoded">>),
                       Authorization, <<"Bearer ", token>>)
        ELSE HeaderSet(EmptyMap, ContentType, <<"application/x-www-form-urlencoded">>))

newRequestMade(r, query, form, token) ==
  IF r.failed THEN [err |-> Err("request"), req |-> NoReq]
  ELSE [err |-> NoErr,
        req |-> [r.req EXCEPT !.query = IF query.isNil THEN <<>> ELSE Encode(query),
                              !.header = newRequestHeader(form, token)]]

\* newRequest
newRequest(ctxNil, method, endpoint, query, form, token) ==
  IF ~urlParse(endpoint) THEN [err |-> Err("endpoint"), req |-> NoReq]
  ELSE newRequestMade(
         NewRequestWithContext(ctxNil, method, endpoint,
                               IF form.isNil THEN NoBody ELSE SomeBody(Encode(form))),
         query, form, token)

\* PostForm, up to the send.
PostFormReq(i) == newRequest(i.ctxNil, "POST", i.endpoint, NilForm, i.form, "")

\* The custom-header variants after NewRequestWithContext answered r: the
\* caller's headers are set in the map's iteration order.
withHeaders(r, headers, order) ==
  IF r.failed THEN [err |-> Err("request"), req |-> NoReq]
  ELSE [err |-> NoErr, req |-> [r.req EXCEPT !.header = applyHeaders(@, headers, order, 1)]]

\* GetWithCustomHeaders, up to the send; order is the map's iteration order.
GetWithCustomHeadersReq(i, order) ==
  withHeaders(NewRequestWithContext(i.ctxNil, "GET", i.endpoint, NoBody), i.headers, order)

\* PostFormWithHeaders, up to the send.
PostFormWithHeadersReq(i, order) ==
  withHeaders(NewRequestWithContext(i.ctxNil, "POST", i.endpoint, SomeBody(Encode(i.form))),
              i.headers, order)

\* PostJSONWithAuth after json.Marshal answered m.
withAuth(r, token) ==
  IF r.failed THEN [err |-> Err("request"), req |-> NoReq]
  ELSE [err |-> NoErr,
        req |-> [r.req EXCEPT !.header =
                   HeaderSet(HeaderSet(@, ContentType, <<"application/json">>),
                             Authorization, <<"Bearer ", token>>)]]

\* postJSON going on after a failed json.Marshal.
postJSONIgnoreErr(i, m) ==
  withAuth(NewRequestWithContext(i.ctxNil, "POST", i.endpoint, SomeBody(m.bytes)), i.token)

postJSON(i, m) ==
  IF m.failed THEN [err |-> Err("encode"), req |-> NoReq]
  ELSE withAuth(NewRequestWithContext(i.ctxNil, "POST", i.endpoint, SomeBody(m.bytes)), i.token)

\* PostJSONWithAuth, up to the send.
PostJSONWithAuthReq(i) == postJSON(i, Marshal(i.body))

\* HTTPGet, up to the send.
plainRequest(r) ==
  IF r.failed THEN [err |-> Err("request"), req |-> NoReq] ELSE [err |-> NoErr, req |-> r.req]

HTTPGetReq(i) == plainRequest(NewRequestWithContext(i.ctxNil, "GET", i.endpoint, NoBody))

\* ----------------------------------------------------------- the responses
(***************************************************************************)
(* What client.Do and the body gave: do.failed (Do returned an error), the *)
(* status, the bytes the body delivered and whether it then ended          *)
(* (io.EOF) or broke off with a read error.  The result of a call: the     *)
(* error, the destination, how often the body was closed and whether the   *)
(* body was read.                                                          *)
(***************************************************************************)
Outcome(err, dest, closes, read) ==
  [err |-> err, dest |-> dest, closes |-> closes, read |-> read]

StatusErr(status) == [kind |-> "status", status |-> status, text |-> <<>>, withBody |-> FALSE]

StatusBodyErr(status, text) ==
  [kind |-> "status", status |-> status, text |-> text, withBody |-> TRUE]

\* The return after the decode answered d.
decoded(d) ==
  IF d.failed THEN Outcome(Err("decode"), d.dest, 1, TRUE) ELSE Outcome(NoErr, d.dest, 1, TRUE)

\* doRequest closing the body only after the status check has passed.
doRequestLeak(do, dk, dest) ==
  IF do.failed THEN Outcome(Err("transport"), dest, 0, FALSE)
  ELSE IF do.status # StatusOK THEN Outcome(StatusErr(do.status), dest, 0, FALSE)
  ELSE decoded(DecoderDecode(do.bytes, do.eof, dk, dest))

\* doRequest
doRequest(do, dk, dest) ==
  IF do.failed THEN Outcome(Err("transport"), dest, 0, FALSE)
  ELSE IF do.status # StatusOK THEN Outcome(StatusErr(do.status), dest, 1, FALSE)
  ELSE decoded(DecoderDecode(do.bytes, do.eof, dk, dest))

\* PostForm, from the send on.
PostFormResp(do, dk, dest) == doRequest(do, dk, dest)

\* GetWithCustomHeadersResp leaving the body out of the status error.
GetWithCustomHeadersRespNoBody(do, dk, dest) == doRequest(do, dk, dest)

\* GetWithCustomHeaders, from the send on.
GetWithCustomHeadersResp(do, dk, dest) ==
  IF do.failed THEN Outcome(Err("transport"), dest, 0, FALSE)
  ELSE IF do.status # StatusOK THEN Outcome(StatusBodyErr(do.status, do.bytes), dest, 1, TRUE)
  ELSE decoded(DecoderDecode(do.bytes, do.eof, dk, dest))

\* PostFormWithHeaders, from the send on.
PostFormWithHeadersResp(do, dk, dest) ==
  IF do.failed THEN Outcome(Err("transport"), dest, 0, FALSE)
  ELSE IF do.status # StatusOK THEN Outcome(StatusBodyErr(do.status, do.bytes), dest, 1, TRUE)
  ELSE decoded(DecoderDecode(do.bytes, do.eof, dk, dest))

\* PostJSONWithAuthResp wrapping a failed send in the decode message.
PostJSONWithAuthRespWrongWrap(do, dk, dest) ==
  IF do.failed THEN Outcome(Err("decode"), dest, 0, FALSE)
  ELSE IF do.status # StatusOK THEN Outcome(StatusBodyErr(do.status, do.bytes), dest, 1, TRUE)
  ELSE decoded(DecoderDecode(do.bytes, do.eof, dk, dest))

\* PostJSONWithAuth, from the send on.
PostJSONWithAuthResp(do, dk, dest) ==
  IF do.failed THEN Outcome(Err("transport"), dest, 0, FALSE)
  ELSE IF do.status # StatusOK THEN Outcome(StatusBodyErr(do.status, do.bytes), dest, 1, TRUE)
  ELSE decoded(DecoderDecode(do.bytes, do.eof, dk, dest))

\* HTTPGetResp parsing the body before it looks at the status.
statusAfterParse(do, d) ==
  IF do.status # StatusOK THEN Outcome(StatusBodyErr(do.status, do.bytes), d.dest, 1, TRUE)
  ELSE decoded(d)

HTTPGetRespParseFirst(do, dk, dest) ==
  IF do.failed THEN Outcome(Err("transport"), dest, 0, FALSE)
  ELSE IF ~do.eof THEN Outcome(Err("read"), dest, 1, TRUE)
  ELSE statusAfterParse(do, Unmarshal(do.bytes, dk, dest))

\* HTTPGet, from the send on: the body is read to its end before the status
\* is looked at.
HTTPGetResp(do, dk, dest) ==
  IF do.failed THEN Outcome(Err("transport"), dest, 0, FALSE)
  ELSE IF ~do.eof THEN Outcome(Err("read"), dest, 1, TRUE)
  ELSE IF do.status # StatusOK THEN Outcome(StatusBodyErr(do.status, do.bytes), dest, 1, TRUE)
  ELSE decoded(Unmarshal(do.bytes, dk, dest))

Fns == {"PostForm", "GetWithCustomHeaders", "PostFormWithHeaders", "PostJSONWithAuth", "HTTPGet"}

\* The entry point's code up to the send.
BuildRequest(i, order) ==
  CASE i.fn = "PostForm" -> PostFormReq(i)
    [] i.fn = "GetWithCustomHeaders" -> GetWithCustomHeadersReq(i, order)
    [] i.fn = "PostFormWithHeaders" -> PostFormWithHeadersReq(i, order)
    [] i.fn = "PostJSONWithAuth" -> PostJSONWithAuthReq(i)
    [] OTHER -> HTTPGetReq(i)

\* The entry point's code from the send on.
HandleResponse(fn, do, dk, d) ==
  CASE fn = "PostForm" -> PostFormResp(do, dk, d)
    [] fn = "GetWithCustomHeaders" -> GetWithCustomHeadersResp(do, dk, d)
    [] fn = "PostFormWithHeaders" -> PostFormWithHeadersResp(do, dk, d)
    [] fn = "PostJSONWithAuth" -> PostJSONWithAuthResp(do, dk, d)
    [] OTHER -> HTTPGetResp(do, dk, d)

\* --------------------------------------------------------- the state machine

VARIABLES
  pc,        \* "idle", "called", "built", "inflight", "responded", "done"
  in,        \* the arguments of the call
  cancel,    \* "none", or where the call was when the context was cancelled
  req,       \* the request handed to the client
  sends,     \* how often client.Do was invoked in this call
  resp,      \* the response client.Do returned: status and the body's bytes
  recv,      \* what reading the body delivered
  bodyOpen,  \* the response body is open
  closes,    \* how often resp.Body.Close was called in this call
  ret,       \* the error the call returned
  dest       \* the caller's destination

vars == <<pc, in, cancel, req, sends, resp, recv, bodyOpen, closes, ret, dest>>

Statuses == {StatusOK, 201, 503}

NoJSONBody == [encodable |-> TRUE, v |-> Untouched]

JSONBodies == {[encodable |-> TRUE, v |-> [depth |-> 1, n |-> 1]],
               [encodable |-> FALSE, v |-> Untouched]}

Input(fn, endpoint, ctxNil, form, headers, body, token, dk) ==
  [fn |-> fn, endpoint |-> endpoint, ctxNil |-> ctxNil, form |-> form, headers |-> headers,
   body |-> body, token |-> token, dk |-> dk]

NoInput == Input("", EndpointOK, FALSE, NilForm, EmptyMap, NoJSONBody, "", "any")

NoResp == [present |-> FALSE, status |-> 0, body |-> <<>>]

NoRecv == [read |-> FALSE, bytes |-> <<>>, eof |-> FALSE]

SomeForm == [isNil |-> FALSE, vals |-> [k \in {"a"} |-> <<"x", "&">>]]

\* The calls of the specification Spec: every entry point, every way the
\* construction can fail, both kinds of destination; one form and one header map.
Inputs ==
  {Input("PostForm", e, c, f, EmptyMap, NoJSONBody, "", dk) :
     e \in Endpoints, c \in BOOLEAN, f \in {NilForm, SomeForm}, dk \in DestKinds}
  \cup {Input("GetWithCustomHeaders", e, c, NilForm, h, NoJSONBody, "", dk) :
     e \in Endpoints, c \in BOOLEAN, h \in {EmptyMap, [k \in {ContentType} |-> <<"v1">>]},
     dk \in DestKinds}
  \cup {Input("PostFormWithHeaders", e, c, SomeForm, h, NoJSONBody, "", dk) :
     e \in Endpoints, c \in BOOLEAN, h \in {EmptyMap, [k \in {ContentType} |-> <<"v1">>]},
     dk \in DestKinds}
  \cup {Input("PostJSONWithAuth", e, c, NilForm, EmptyMap, b, "tok123", dk) :
     e \in Endpoints, c \in BOOLEAN, b \in JSONBodies, dk \in DestKinds}
  \cup {Input("HTTPGet", e, c, NilForm, EmptyMap, NoJSONBody, "", dk) :
     e \in Endpoints, c \in BOOLEAN, dk \in DestKinds}

\* The calls of the specification SpecReq: every form and every header map.
ReqInputs ==
  {Input("PostForm", e, FALSE, f, EmptyMap, NoJSONBody, "", "any") :
     e \in Endpoints, f \in Forms}
  \cup {Input("GetWithCustomHeaders", EndpointOK, FALSE, NilForm, h, NoJSONBody, "", "any") :
     h \in HeaderMaps}
  \cup {Input("PostFormWithHeaders", EndpointOK, FALSE, f, h, NoJSONBody, "", "any") :
     f \in {NilForm, SomeForm}, h \in HeaderMaps}
  \cup {Input("PostJSONWithAuth", EndpointOK, FALSE, NilForm, EmptyMap, b, t, "any") :
     b \in JSONBodies, t \in {"", "tok123"}}
  \cup {Input("HTTPGet", EndpointOK, FALSE, NilForm, EmptyMap, NoJSONBody, "", "any")}

ReqBodies == {<<>>, <<"1">>}

Init ==
  /\ pc = "idle"
  /\ in = NoInput
  /\ cancel = "none"
  /\ req = NoReq
  /\ sends = 0
  /\ resp = NoResp
  /\ recv = NoRecv
  /\ bodyOpen = FALSE
  /\ closes = 0
  /\ ret = NoErr
  /\ dest = Untouched

\* A caller invokes an entry point with arguments i and a fresh destination.
Call(i) ==
  /\ pc \in {"idle", "done"}
  /\ pc' = "called"
  /\ in' = i
  /\ cancel' = "none"
  /\ req' = NoReq
  /\ sends' = 0
  /\ resp' = NoResp
  /\ recv' = NoRecv
  /\ bodyOpen' = FALSE
  /\ closes' = 0
  /\ ret' = NoErr
  /\ dest' = Untouched

\* The entry point builds its request, the header map visited in some order;
\* a failure returns at once.
Built(r) ==
  IF r.err.kind # "none"
  THEN /\ pc' = "done"
       /\ ret' = r.err
       /\ req' = req
  ELSE /\ pc' = "built"
       /\ ret' = ret
       /\ req' = r.req

Build ==
  /\ pc = "called"
  /\ \E order \in Orders(DOMAIN in.headers) : Built(BuildRequest(in, order))
  /\ UNCHANGED <<in, cancel, sends, resp, recv, bodyOpen, closes, dest>>

\* The caller cancels the context while the call is in flight.
Cancel ==
  /\ pc \in {"called", "built", "inflight", "responded"}
  /\ cancel = "none"
  /\ ~in.ctxNil
  /\ cancel' = pc
  /\ UNCHANGED <<pc, in, req, sends, resp, recv, bodyOpen, closes, ret, dest>>

\* client.Do(req) is invoked.
Send ==
  /\ pc = "built"
  /\ pc' = "inflight"
  /\ sends' = sends + 1
  /\ UNCHANGED <<in, cancel, req, resp, recv, bodyOpen, closes, ret, dest>>

\* The entry point returns r; the body delivered bytes and eof.
Return(r, bytes, eof) ==
  /\ ret' = r.err
  /\ dest' = r.dest
  /\ closes' = closes + r.closes
  /\ bodyOpen' = (bodyOpen /\ r.closes = 0)
  /\ recv' = IF r.read THEN [read |-> TRUE, bytes |-> bytes, eof |-> eof] ELSE NoRecv
  /\ pc' = "done"

\* SendFail trying the request once more before it gives up.
SendFailRetry ==
  /\ pc = "inflight"
  /\ IF sends < 2
     THEN /\ pc' = "built"
          /\ UNCHANGED <<ret, dest, closes, bodyOpen, recv>>
     ELSE Return(HandleResponse(in.fn, [failed |-> TRUE, status |-> 0, bytes |-> <<>>,
                                        eof |-> FALSE], in.dk, dest),
                 <<>>, FALSE)
  /\ UNCHANGED <<in, cancel, req, sends, resp>>

\* client.Do returns an error (the network failed, or the context was
\* cancelled), and the entry point returns.
SendFail ==
  /\ pc = "inflight"
  /\ Return(HandleResponse(in.fn, [failed |-> TRUE, status |-> 0, bytes |-> <<>>, eof |-> FALSE],
                           in.dk, dest),
            <<>>, FALSE)
  /\ UNCHANGED <<in, cancel, req, sends, resp>>

\* client.Do returns a response: the status line and headers have arrived and
\* the body is open.  A cancelled context makes Do fail instead.
SendResp(status, body) ==
  /\ pc = "inflight"
  /\ cancel = "none"
  /\ resp' = [present |-> TRUE, status |-> status, body |-> body]
  /\ bodyOpen' = TRUE
  /\ pc' = "responded"
  /\ UNCHANGED <<in, cancel, req, sends, recv, closes, ret, dest>>

\* The entry point handles the response and returns.  The body delivers its
\* first n bytes and then ends (eof) or breaks off with a read error; after a
\* cancellation it breaks off.
Finish(n, eof) ==
  /\ pc = "responded"
  /\ n <= Len(resp.body)
  /\ eof => n = Len(resp.body)
  /\ cancel # "none" => ~eof
  /\ Return(HandleResponse(in.fn, [failed |-> FALSE, status |-> resp.status,
                                   bytes |-> Prefix(resp.body, n), eof |-> eof], in.dk, dest),
            Prefix(resp.body, n), eof)
  /\ UNCHANGED <<in, cancel, req, sends, resp>>

Next ==
  \/ \E i \in Inputs : Call(i)
  \/ Build
  \/ Cancel
  \/ Send
  \/ SendFail
  \/ \E status \in Statuses, body \in Bodies : SendResp(status, body)
  \/ \E n \in 0..MaxBodyLen, eof \in BOOLEAN : Finish(n, eof)

Spec == Init /\ [][Next]_vars

\* The same machine over every form and header map, and two response bodies.
NextReq ==
  \/ \E i \in ReqInputs : Call(i)
  \/ Build
  \/ Cancel
  \/ Send
  \/ SendFail
  \/ \E status \in Statuses, body \in ReqBodies : SendResp(status, body)
  \/ \E n \in 0..MaxBodyLen, eof \in BOOLEAN : Finish(n, eof)

SpecReq == Init /\ [][NextReq]_vars

\* ------------------------------------------------------------- the claims
(***************************************************************************)
(* JSON as the grammar defines it, written without the scanner: a document *)
(* is a value between optional spaces; a value is a run of digits or a     *)
(* bracketed value or nothing.                                             *)
(***************************************************************************)
RECURSIVE TrimLeft(_)
TrimLeft(t) == IF t # <<>> /\ Head(t) = " " THEN TrimLeft(Tail(t)) ELSE t

RECURSIVE TrimRight(_)
TrimRight(t) ==
  IF t # <<>> /\ t[Len(t)] = " " THEN TrimRight(SubSeq(t, 1, Len(t) - 1)) ELSE t

Trim(t) == TrimLeft(TrimRight(t))

Inner(t) == Trim(SubSeq(t, 2, Len(t) - 1))

RECURSIVE IsValueText(_)
IsValueText(t) ==
  /\ t # <<>>
  /\ \/ \A i \in DOMAIN t : t[i] = "1"
     \/ /\ Len(t) >= 2
        /\ t[1] = "["
        /\ t[Len(t)] = "]"
        /\ (Inner(t) = <<>> \/ IsValueText(Inner(t)))

ValidJSON(b) == IsValueText(Trim(b))

RECURSIVE Ones(_)
Ones(k) == IF k = 0 THEN 0 ELSE 10 * Ones(k - 1) + 1

RECURSIVE ValueOfText(_)
ValueOfText(t) ==
  IF t[1] = "1" THEN [depth |-> 0, n |-> Ones(Len(t))]
  ELSE IF Inner(t) = <<>> THEN [depth |-> 1, n |-> -1]
  ELSE [depth |-> ValueOfText(Inner(t)).depth + 1, n |-> ValueOfText(Inner(t)).n]

JSONValue(b) == ValueOfText(Trim(b))

\* The value has the destination's shape.
Fits(v, dk) == dk = "any" \/ v.depth = 0

\* The call has returned after client.Do gave a response.
DoneWithResponse == pc = "done" /\ resp.present

\* The body was read to its end.
ReadComplete == recv.read /\ recv.eof

\* The body was read and the read broke off.
ReadFailed == recv.read /\ ~recv.eof

PreSendKinds == {"endpoint", "request", "encode"}

HeaderFns == {"GetWithCustomHeaders", "PostFormWithHeaders"}

FormFns == {"PostForm", "PostFormWithHeaders"}

\* C1 as stated: after a response with a status other than 200 every entry point
\* returns an unexpected-status error and leaves the destination unmodified.
C1_Original ==
  (DoneWithResponse /\ resp.status # StatusOK) => (ret.kind = "status" /\ dest = Untouched)

\* C1 amended: after a response with a status other than 200 the destination is
\* unmodified and the call returns an unexpected-status error carrying that
\* status, except that HTTPGet, which reads the body before it looks at the
\* status, returns a body-read error when that read fails.
C1_NonOKLeavesDest ==
  (DoneWithResponse /\ resp.status # StatusOK) =>
    /\ dest = Untouched
    /\ IF in.fn = "HTTPGet" /\ ReadFailed
       THEN ret.kind = "read"
       ELSE ret.kind = "status" /\ ret.status = resp.status

\* HTTPGet got 201 with a body that is valid JSON for the destination, read it all,
\* and returned the status error without decoding.
C1_Witness ==
  /\ DoneWithResponse
  /\ in.fn = "HTTPGet"
  /\ resp.status = 201
  /\ resp.body = <<"1">>
  /\ ReadComplete
  /\ ret.kind = "status"
  /\ dest = Untouched

\* C2: after a 200 response whose body, read to its end, is valid JSON of the
\* destination's shape, every entry point returns no error and the destination
\* holds the value the body denotes.
C2_OKDecodes ==
  (DoneWithResponse /\ resp.status = StatusOK /\ ReadComplete /\ ValidJSON(resp.body)
     /\ Fits(JSONValue(resp.body), in.dk)) =>
    (ret.kind = "none" /\ dest = JSONValue(resp.body))

\* PostForm got 200 with the body [1] and decoded it into a *interface{}.
C2_Witness ==
  /\ DoneWithResponse
  /\ in.fn = "PostForm"
  /\ resp.status = StatusOK
  /\ resp.body = <<"[", "1", "]">>
  /\ ret.kind = "none"
  /\ dest = [depth |-> 1, n |-> 1]

\* C3 as stated: after a 200 response whose body, read to its end, is not valid
\* JSON (empty, truncated, or a value followed by other bytes), every entry
\* point returns a decode error.
C3_Claim ==
  (DoneWithResponse /\ resp.status = StatusOK /\ ReadComplete /\ ~ValidJSON(resp.body)) =>
    ret.kind = "decode"

\* C4: a call whose request cannot be built returns the matching error (invalid
\* endpoint for PostForm with an unparseable endpoint, encode for
\* PostJSONWithAuth with a body that cannot be marshalled, request construction
\* otherwise) without invoking client.Do and without touching the destination.
C4_NoSendOnEarlyFailure ==
  (pc \notin {"idle", "called"}) =>
    /\ (in.fn = "PostForm" /\ in.endpoint = EndpointBad) => (pc = "done" /\ ret.kind = "endpoint")
    /\ (in.fn = "PostJSONWithAuth" /\ ~in.body.encodable) => (pc = "done" /\ ret.kind = "encode")
    /\ ((in.ctxNil \/ in.endpoint = EndpointBad)
          /\ ~(in.fn = "PostForm" /\ in.endpoint = EndpointBad)
          /\ ~(in.fn = "PostJSONWithAuth" /\ ~in.body.encodable))
         => (pc = "done" /\ ret.kind = "request")
    /\ ret.kind \in PreSendKinds =>
         (sends = 0 /\ dest = Untouched /\ ~resp.present /\ ~bodyOpen /\ closes = 0)

\* PostJSONWithAuth returned the encode error for a body that cannot be marshalled.
C4_Witness ==
  /\ pc = "done"
  /\ in.fn = "PostJSONWithAuth"
  /\ ~in.body.encodable
  /\ ret.kind = "encode"
  /\ sends = 0

\* C5 as stated: every call of every entry point invokes client.Do exactly once.
C5_Original == pc = "done" => sends = 1

\* C5 amended: client.Do is never invoked twice in a call; a call that returns
\* after its request was built invoked it exactly once, and a call that fails
\* before the send (invalid endpoint, request construction, encode) not at all.
C5_AtMostOneSend ==
  /\ sends <= 1
  /\ pc = "done" => sends = (IF ret.kind \in PreSendKinds THEN 0 ELSE 1)
  /\ pc \in {"inflight", "responded"} => sends = 1

\* A call got a 200 response, failed to decode it and returned after one send.
C5_Witness ==
  /\ DoneWithResponse
  /\ resp.status = StatusOK
  /\ ret.kind = "decode"
  /\ sends = 1

\* C6: the body of a response is closed exactly once before the call returns, on
\* every path; a call whose send failed closes nothing and leaves nothing open.
C6_BodyClosedOnce ==
  /\ closes <= 1
  /\ bodyOpen => (resp.present /\ closes = 0 /\ pc = "responded")
  /\ pc = "done" => (~bodyOpen /\ closes = (IF resp.present THEN 1 ELSE 0))

\* HTTPGet failed to read the body and returned with the body closed.
C6_Witness ==
  /\ DoneWithResponse
  /\ ret.kind = "read"
  /\ closes = 1
  /\ ~bodyOpen

\* C7 as stated: a call whose context was cancelled before the response was
\* completely received returns a transport error.
C7_Original ==
  (pc = "done" /\ cancel # "none" /\ sends > 0) => ret.kind = "transport"

\* C7 amended: a cancellation before client.Do has returned makes the call
\* return a transport error and leave the destination alone; a cancellation
\* after client.Do returned the response (headers received, body not yet read
\* to its end) never gives a transport error: it gives a decode error, a
\* body-read error, an unexpected-status error or success.
C7_CancelBeforeResponse ==
  /\ (pc = "done" /\ cancel \in {"called", "built", "inflight"} /\ sends > 0) =>
       (ret.kind = "transport" /\ dest = Untouched)
  /\ (pc = "done" /\ cancel = "responded") =>
       ret.kind \in {"decode", "read", "status", "none"}

\* The context was cancelled while client.Do was running and the call returned a
\* transport error.
C7_Witness ==
  /\ pc = "done"
  /\ cancel = "inflight"
  /\ sends = 1
  /\ ret.kind = "transport"

\* No key of the caller's header map names Content-Type.
NoCallerContentType ==
  \A k \in DOMAIN in.headers : CanonicalMIMEHeaderKey(k) # ContentType

\* C8 as stated: a form POST with a form carries the encoded form as its body and
\* Content-Type: application/x-www-form-urlencoded unless the caller set its own.
C8_Claim ==
  (pc = "built" /\ in.fn \in FormFns /\ ~in.form.isNil) =>
    /\ req.body = SomeBody(Encode(in.form))
    /\ NoCallerContentType =>
         /\ ContentType \in DOMAIN req.header
         /\ req.header[ContentType] = <<"application/x-www-form-urlencoded">>

\* C9 as stated: the request's headers are the same for every order in which the
\* caller's header map is applied.
C9_Original ==
  (pc = "built" /\ in.fn \in HeaderFns) =>
    \A o \in Orders(DOMAIN in.headers) : BuildRequest(in, o).req.header = req.header

\* Keys of the caller's map that name the same header carry the same value.
SameNameSameValue ==
  \A k1, k2 \in DOMAIN in.headers :
    CanonicalMIMEHeaderKey(k1) = CanonicalMIMEHeaderKey(k2) => in.headers[k1] = in.headers[k2]

\* C9 amended: when no two keys of the caller's map that name the same header
\* (differ only in letter case) carry different values, the request's headers
\* are the same for every order of application, and each caller-supplied header
\* is in the request under its canonical name with the caller's value.
C9_OrderIndependent ==
  (pc = "built" /\ in.fn \in HeaderFns /\ SameNameSameValue) =>
    /\ \A o \in Orders(DOMAIN in.headers) : BuildRequest(in, o).req.header = req.header
    /\ \A k \in DOMAIN in.headers :
         /\ CanonicalMIMEHeaderKey(k) \in DOMAIN req.header
         /\ req.header[CanonicalMIMEHeaderKey(k)] = in.headers[k]

\* A request was built from a map of two different headers, one of them written
\* in lower case.
C9_Witness ==
  /\ pc = "built"
  /\ in.fn = "PostFormWithHeaders"
  /\ DOMAIN in.headers = {<<"c", "o", "n", "t", "e", "n", "t", "-", "t", "y", "p", "e">>,
                          <<"X", "-", "I", "d">>}
  /\ DOMAIN req.header = {ContentType, <<"X", "-", "I", "d">>}

\* C10 as stated: after a status s other than 200 with body b the error carries
\* s; it carries b too, except in PostForm, which carries s only and does not
\* read the body.
C10_Original ==
  (DoneWithResponse /\ resp.status # StatusOK) =>
    /\ ret.status = resp.status
    /\ in.fn # "PostForm" => (ret.withBody /\ ret.text = resp.body)
    /\ in.fn = "PostForm" => (~ret.withBody /\ ~recv.read)

\* C10 amended: after a status s other than 200 the error of PostForm carries s
\* only and the body is not read; the errors of the other four carry s and the
\* bytes of the body that were read (all of b when the read reaches its end),
\* except that HTTPGet returns a body-read error carrying neither when the read
\* fails.
C10_StatusErrorContent ==
  (DoneWithResponse /\ resp.status # StatusOK) =>
    /\ in.fn = "PostForm" => (ret = StatusErr(resp.status) /\ ~recv.read)
    /\ (in.fn # "PostForm" /\ ~(in.fn = "HTTPGet" /\ ReadFailed)) =>
         /\ ret = StatusBodyErr(resp.status, recv.bytes)
         /\ ReadComplete => ret.text = resp.body
    /\ (in.fn = "HTTPGet" /\ ReadFailed) => ret = Err("read")

\* GetWithCustomHeaders got 503 with a body of two bytes and returned an error
\* carrying the status and both bytes.
C10_Witness ==
  /\ DoneWithResponse
  /\ in.fn = "GetWithCustomHeaders"
  /\ resp.status = 503
  /\ resp.body = <<"1", "1">>
  /\ ret = StatusBodyErr(503, <<"1", "1">>)

====
